---- MODULE Spec2Model ----
(***************************************************************************)
(* hillmaker: the bin-construction engine of bydatetime.make_bydatetime.   *)
(*                                                                         *)
(* Timestamps are whole seconds since the midnight before the analysis     *)
(* window.  An occupancy fraction is kept exactly, as its numerator over   *)
(* the common denominator bin_size_minutes * 60 (the seconds in one bin),  *)
(* so the 1.0 of the code is the numerator One(bin_size_minutes).  The     *)
(* float32 rounding of the result arrays is not modelled.                  *)
(* A category value is a Python str, kept as the sequence of its           *)
(* characters so that the substring test of `in` can be computed.          *)
(* An array is a sequence: bin b is the element b + 1.                     *)
(***************************************************************************)
EXTENDS Integers, Sequences, FiniteSets, TLC

\* ------------------------------------------------------------------ bounds
\* at most this many stay records in the input batch
MaxRecs == 2
\* the sampled timestamps are FirstTime plus 0 .. MaxTick ticks of TickMinutes
MaxTick == 5
\* the timestamps of the fraction specification: 0 .. MaxFracTick ticks
MaxFracTick == 40

TickMinutes == 45
FracTickSeconds == 450

\* analysis window of the runs: 01:00 .. 03:00
StartAnalysis == 3600
EndAnalysis == 10800

\* 00:15, 01:00, 01:45, 02:30, 03:15, 04:00
FirstTime == 900
Times == {FirstTime + k * TickMinutes * 60 : k \in 0..MaxTick}
FracTimes == {k * FracTickSeconds : k \in 0..MaxFracTick}
BinSizes == {30, 60}
FracBinSizes == {15, 30, 60, 120}

cat_a == <<"a">>
cat_b == <<"b">>
cat_datetime == <<"d", "a", "t", "e", "t", "i", "m", "e">>
CatValues == {cat_a, cat_b, cat_datetime}
\* the value of the category column of a batch that has no category column
NoCat == <<>>

Max(x, y) == IF x >= y THEN x ELSE y
Min(x, y) == IF x <= y THEN x ELSE y

RECURSIVE SumSeq(_)
SumSeq(s) == IF s = <<>> THEN 0 ELSE Head(s) + SumSeq(Tail(s))

\* ------------------------------------------------------- Python and numpy
\* needle in hay, for two str
StrIn(needle, hay) ==
    \E k \in 0..(Len(hay) - Len(needle)) :
        SubSeq(hay, k + 1, k + Len(needle)) = needle

\* a slice bound of a sequence of length n
SliceIdx(i, n) == IF i < 0 THEN Max(i + n, 0) ELSE Min(i, n)

\* s[a:b]
PySlice(s, a, b) ==
    LET lo == SliceIdx(a, Len(s))
        hi == SliceIdx(b, Len(s))
    IN  IF hi <= lo THEN <<>> ELSE SubSeq(s, lo + 1, hi)

\* s[a:]
PySliceFrom(s, a) == PySlice(s, a, Len(s))

\* s[:b]
PySliceTo(s, b) == PySlice(s, 0, b)

\* Series.unique(): the distinct values in order of first appearance
RECURSIVE Unique(_)
Unique(s) ==
    IF s = <<>> THEN <<>>
    ELSE LET r == Unique(SubSeq(s, 1, Len(s) - 1))
             x == s[Len(s)]
         IN  IF \E j \in 1..Len(r) : r[j] = x THEN r ELSE Append(r, x)

Zeros(n) == [j \in 1..n |-> 0]

\* np.bincount(bins, minlength=n): "error" for a negative element
BinCount(bins, n) ==
    IF \E i \in 1..Len(bins) : bins[i] < 0
    THEN [ok |-> FALSE, val |-> <<>>]
    ELSE LET top == IF bins = <<>> THEN 0
                    ELSE (CHOOSE m \in {bins[i] : i \in 1..Len(bins)} :
                             \A i \in 1..Len(bins) : bins[i] <= m) + 1
             len == Max(n, top)
         IN  [ok |-> TRUE,
              val |-> [j \in 1..len |->
                          Cardinality({i \in 1..Len(bins) : bins[i] = j - 1})]]

\* occ[pos:pos + len(occ_inc)] += occ_inc : the slice is clamped as every
\* slice is, and the addition broadcasts, so it succeeds when the slice and
\* occ_inc have the same length or occ_inc has one element
SliceIAdd(occ, pos, occ_inc) ==
    LET n == Len(occ)
        m == Len(occ_inc)
        lo == SliceIdx(pos, n)
        hi == Max(SliceIdx(pos + m, n), lo)
        k == hi - lo
    IN  IF k = m \/ m = 1
        THEN [ok |-> TRUE,
              val |-> [j \in 1..n |->
                          IF lo < j /\ j <= hi
                          THEN occ[j] + (IF m = 1 THEN occ_inc[1] ELSE occ_inc[j - lo])
                          ELSE occ[j]]]
        ELSE [ok |-> FALSE, val |-> occ]

\* ------------------------------------------------------------------ hmlib
\* bin_of_span: whole bins from start_span to ts, rounded down
bin_of_span(ts, start_span, bin_size_minutes) ==
    (ts - start_span) \div (bin_size_minutes * 60)

\* hmlib is not part of the sources at hand.  bin_of_span follows its
\* contract; the classifier follows the classification table, its bin
\* comparisons written on the timestamps the classifier is called with
\* (entry, exit, start_analysis, end_analysis).
IsBackwards(in_ts, out_ts) == out_ts < in_ts
IsInner(in_ts, out_ts, start_span, end_span) ==
    start_span <= in_ts /\ out_ts <= end_span
IsLeft(in_ts, out_ts, start_span, end_span) ==
    in_ts < start_span /\ start_span <= out_ts /\ out_ts <= end_span
IsRight(in_ts, out_ts, start_span, end_span) ==
    start_span <= in_ts /\ in_ts <= end_span /\ out_ts > end_span
IsOuter(in_ts, out_ts, start_span, end_span) ==
    in_ts < start_span /\ out_ts > end_span

\* stoprec_analysis_rltnshp: a record whose exit precedes its entry is
\* backwards whatever its position
stoprec_analysis_rltnshp(in_ts, out_ts, start_span, end_span) ==
    IF IsBackwards(in_ts, out_ts) THEN "backwards"
    ELSE IF IsInner(in_ts, out_ts, start_span, end_span) THEN "inner"
    ELSE IF IsLeft(in_ts, out_ts, start_span, end_span) THEN "left"
    ELSE IF IsRight(in_ts, out_ts, start_span, end_span) THEN "right"
    ELSE IF IsOuter(in_ts, out_ts, start_span, end_span) THEN "outer"
    ELSE "none"

\* ------------------------------------------------------------- bydatetime
\* Timestamp.minute and Timestamp.second
MinuteOf(ts) == (ts \div 60) % 60
SecondOf(ts) == ts % 60

\* the numerator of 1.0
One(bin_size_minutes) == bin_size_minutes * 60

in_bin_occ_frac(in_ts, bin_size_minutes, edge_bins) ==
    IF edge_bins = 1
    THEN MinuteOf(in_ts) * 60 + SecondOf(in_ts)
    ELSE One(bin_size_minutes)

out_bin_occ_frac(out_ts, bin_size_minutes, edge_bins) ==
    IF edge_bins = 1
    THEN bin_size_minutes * 60 - (MinuteOf(out_ts) * 60 + SecondOf(out_ts))
    ELSE One(bin_size_minutes)

\* make_occ_incs with n_bins - 1 ones between the two fractions
make_occ_incs_one_more(in_bin, out_bin, in_frac, out_frac, one) ==
    LET n_bins == out_bin - in_bin + 1
    IN  IF n_bins > 2
        THEN <<in_frac>> \o [j \in 1..(n_bins - 1) |-> one] \o <<out_frac>>
        ELSE IF n_bins = 2 THEN <<in_frac, out_frac>>
        ELSE <<in_frac>>

\* lines 304-315; one is the numerator of 1.0
make_occ_incs(in_bin, out_bin, in_frac, out_frac, one) ==
    LET n_bins == out_bin - in_bin + 1
    IN  IF n_bins > 2
        THEN <<in_frac>> \o [j \in 1..(n_bins - 2) |-> one] \o <<out_frac>>
        ELSE IF n_bins = 2 THEN <<in_frac, out_frac>>
        ELSE <<in_frac>>

\* the conditions of the classification table on raw bins, for a window of
\* n bins
TableInner(e, x, n) == 0 <= e /\ x <= n - 1
TableLeft(e, x, n) == e < 0 /\ 0 <= x /\ x <= n - 1
TableRight(e, x, n) == 0 <= e /\ e <= n - 1 /\ x > n - 1
TableOuter(e, x, n) == e < 0 /\ x > n - 1
TableBackwards(e, x, n) == x < e
TableNone(e, x, n) == (e < 0 /\ x < 0) \/ (e > n - 1 /\ x > n - 1)

\* the labels of the table whose condition holds of the pair (e, x)
TableClasses(e, x, n) ==
    {t \in {"inner", "left", "right", "outer", "backwards", "none"} :
        CASE t = "inner" -> TableInner(e, x, n)
          [] t = "left" -> TableLeft(e, x, n)
          [] t = "right" -> TableRight(e, x, n)
          [] t = "outer" -> TableOuter(e, x, n)
          [] t = "backwards" -> TableBackwards(e, x, n)
          [] t = "none" -> TableNone(e, x, n)}

RecTypeKeys == {"inner", "left", "right", "outer", "backwards", "none", "unknown"}

\* one pass of the loop without the branch for 'none', which then falls
\* through to the else branch
UpdateOccIncsStepNoNone(st, i, rec_types, num_bins) ==
    LET t == rec_types[i]
        key == IF t \in RecTypeKeys \ {"none"} THEN t ELSE "unknown"
        counts == [st.counts EXCEPT ![key] = @ + 1]
    IN  IF t = "left"
        THEN [st EXCEPT !.counts = counts,
                        !.in_bins[i] = 0,
                        !.incs[i] = PySliceFrom(@, (-1) * st.in_bins[i])]
        ELSE IF t = "right"
        THEN [st EXCEPT !.counts = counts,
                        !.out_bins[i] = num_bins - 1,
                        !.incs[i] = PySliceTo(@, -(st.out_bins[i] - (num_bins - 1)))]
        ELSE IF t = "outer"
        THEN [st EXCEPT !.counts = counts,
                        !.in_bins[i] = 0,
                        !.out_bins[i] = num_bins - 1,
                        !.incs[i] = PySlice(@, (-1) * st.in_bins[i],
                                            -(st.out_bins[i] - (num_bins - 1)))]
        ELSE [st EXCEPT !.counts = counts]

\* one pass of the loop of update_occ_incs, on record i
UpdateOccIncsStep(st, i, rec_types, num_bins) ==
    LET t == rec_types[i]
        key == IF t \in RecTypeKeys THEN t ELSE "unknown"
        counts == [st.counts EXCEPT ![key] = @ + 1]
    IN  IF t = "left"
        THEN [st EXCEPT !.counts = counts,
                        !.in_bins[i] = 0,
                        !.incs[i] = PySliceFrom(@, (-1) * st.in_bins[i])]
        ELSE IF t = "right"
        THEN [st EXCEPT !.counts = counts,
                        !.out_bins[i] = num_bins - 1,
                        !.incs[i] = PySliceTo(@, -(st.out_bins[i] - (num_bins - 1)))]
        ELSE IF t = "outer"
        THEN [st EXCEPT !.counts = counts,
                        !.in_bins[i] = 0,
                        !.out_bins[i] = num_bins - 1,
                        !.incs[i] = PySlice(@, (-1) * st.in_bins[i],
                                            -(st.out_bins[i] - (num_bins - 1)))]
        ELSE [st EXCEPT !.counts = counts]

RECURSIVE UpdateOccIncsFrom(_, _, _, _)
UpdateOccIncsFrom(st, i, rec_types, num_bins) ==
    IF i > Len(st.in_bins) THEN st
    ELSE UpdateOccIncsFrom(UpdateOccIncsStep(st, i, rec_types, num_bins),
                           i + 1, rec_types, num_bins)

\* update_occ_incs: the clipped bins and sequences and the returned counts
update_occ_incs(in_bins, out_bins, list_of_inc_arrays, rec_types, num_bins) ==
    UpdateOccIncsFrom([in_bins |-> in_bins, out_bins |-> out_bins,
                       incs |-> list_of_inc_arrays,
                       counts |-> [k \in RecTypeKeys |-> 0]],
                      1, rec_types, num_bins)

CountedTypes == {"inner", "left", "right", "outer"}

RECURSIVE UpdateOccFrom(_, _, _, _, _)
UpdateOccFrom(acc, i, entry_bins, rec_types, list_of_inc_arrays) ==
    IF i > Len(entry_bins) \/ ~acc.ok THEN acc
    ELSE IF rec_types[i] \in CountedTypes
    THEN UpdateOccFrom(SliceIAdd(acc.val, entry_bins[i], list_of_inc_arrays[i]),
                       i + 1, entry_bins, rec_types, list_of_inc_arrays)
    ELSE UpdateOccFrom(acc, i + 1, entry_bins, rec_types, list_of_inc_arrays)

\* update_occ without the test of the record type: every record is added
update_occ_every_type(occ, entry_bins, rec_types, list_of_inc_arrays) ==
    UpdateOccFrom([ok |-> TRUE, val |-> occ], 1, entry_bins,
                  [i \in 1..Len(rec_types) |-> "inner"], list_of_inc_arrays)

\* update_occ: the occupancy array afterwards, or not ok when it raises
update_occ(occ, entry_bins, rec_types, list_of_inc_arrays) ==
    UpdateOccFrom([ok |-> TRUE, val |-> occ], 1, entry_bins, rec_types,
                  list_of_inc_arrays)

\* ---------------------------------------------------------- make_bydatetime
VARIABLES
    args,                \* the arguments of the call, stops_df as passed
    stops_df,            \* the frame as the function rebinds it
    num_bins,
    do_totals,
    categories,          \* categories[0]
    cat_i,               \* position of the category loop, from 1
    entry_bin, exit_bin, list_of_inc_arrays, rec_type, rec_counts,
    results,
    pc,
    fn_in, fn_out        \* argument and result of a function applied alone

vars == <<args, stops_df, num_bins, do_totals, categories, cat_i, entry_bin,
          exit_bin, list_of_inc_arrays, rec_type, rec_counts, results, pc,
          fn_in, fn_out>>

total_str == <<"t", "o", "t", "a", "l">>
totals_key == cat_datetime

NoDict == [c \in {} |-> 0]
NoCounts == [k \in RecTypeKeys |-> 0]

\* a batch with a category column, and one without
StopRecs(cats) == [in : Times, out : Times, cat : cats]
Batches(cats) == UNION {[1..n -> StopRecs(cats)] : n \in 0..MaxRecs}

NoneArg == [given |-> FALSE, val |-> <<>>]
ExcludeArgs == {NoneArg,
                [given |-> TRUE, val |-> <<cat_a, cat_b>>],
                [given |-> TRUE, val |-> <<cat_datetime>>]}

ArgSets ==
    [stops_df : Batches(CatValues), catfield : {TRUE},
     start_analysis : {StartAnalysis}, end_analysis : {EndAnalysis},
     bin_size_minutes : BinSizes, cat_to_exclude : ExcludeArgs,
     totals : {0, 1}, edge_bins : {1, 2}]
    \cup
    [stops_df : Batches({NoCat}), catfield : {FALSE},
     start_analysis : {StartAnalysis}, end_analysis : {EndAnalysis},
     bin_size_minutes : BinSizes,
     cat_to_exclude : ExcludeArgs \cup {[given |-> TRUE, val |-> <<total_str>>]},
     totals : {0, 1}, edge_bins : {1, 2}]

Idle ==
    /\ stops_df = <<>>
    /\ num_bins = 0
    /\ do_totals = TRUE
    /\ categories = <<>>
    /\ cat_i = 1
    /\ entry_bin = <<>>
    /\ exit_bin = <<>>
    /\ list_of_inc_arrays = <<>>
    /\ rec_type = <<>>
    /\ rec_counts = NoCounts
    /\ results = NoDict

Init ==
    /\ args \in ArgSets
    /\ Idle
    /\ pc = "start"
    /\ fn_in = <<>>
    /\ fn_out = <<>>

\* the frame with the dummy category column when no category field is given
WithCatColumn(a) ==
    IF a.catfield THEN a.stops_df
    ELSE [i \in 1..Len(a.stops_df) |-> [a.stops_df[i] EXCEPT !.cat = total_str]]

\* c not in cat_to_exclude[0]
Kept(c, cat_to_exclude) ==
    ~cat_to_exclude.given \/ ~StrIn(c, cat_to_exclude.val[1])

CatColumn(df) == [i \in 1..Len(df) |-> df[i].cat]

SelectCat(df, c) == SelectSeq(df, LAMBDA r : r.cat = c)

\* lines 101-151: the number of bins, the categories, the filtered frame
Setup ==
    /\ pc = "start"
    /\ LET df == WithCatColumn(args)
           cats == SelectSeq(Unique(CatColumn(df)),
                             LAMBDA c : Kept(c, args.cat_to_exclude))
       IN  /\ num_bins' = bin_of_span(args.end_analysis, args.start_analysis,
                                      args.bin_size_minutes) + 1
           /\ do_totals' = args.catfield
           /\ categories' = cats
           /\ stops_df' = SelectSeq(df, LAMBDA r :
                              \E j \in 1..Len(cats) : cats[j] = r.cat)
    /\ results' = NoDict
    /\ cat_i' = 1
    /\ pc' = "loop"
    /\ UNCHANGED <<args, entry_bin, exit_bin, list_of_inc_arrays, rec_type,
                   rec_counts, fn_in, fn_out>>

\* lines 161-164: the fractions are computed over stops_df, with edge_bins=1
EntryBinFrac(df, bin_size_minutes) ==
    [j \in 1..Len(df) |-> in_bin_occ_frac(df[j].in, bin_size_minutes, 1)]
ExitBinFrac(df, bin_size_minutes) ==
    [j \in 1..Len(df) |-> out_bin_occ_frac(df[j].out, bin_size_minutes, 1)]

\* lines 153-173: the bins, increment arrays and record types of the records
\* of category c in the frame df
MakeIncs(df, c, a) ==
    LET cat_df == SelectCat(df, c)
        num_stop_recs == Len(cat_df)
        ebin == [i \in 1..num_stop_recs |->
                    bin_of_span(cat_df[i].in, a.start_analysis, a.bin_size_minutes)]
        xbin == [i \in 1..num_stop_recs |->
                    bin_of_span(cat_df[i].out, a.start_analysis, a.bin_size_minutes)]
        entry_bin_frac == EntryBinFrac(df, a.bin_size_minutes)
        exit_bin_frac == ExitBinFrac(df, a.bin_size_minutes)
    IN  [entry_bin |-> ebin,
         exit_bin |-> xbin,
         list_of_inc_arrays |->
             [i \in 1..num_stop_recs |->
                 make_occ_incs(ebin[i], xbin[i], entry_bin_frac[i],
                               exit_bin_frac[i], One(a.bin_size_minutes))],
         rec_type |->
             [i \in 1..num_stop_recs |->
                 stoprec_analysis_rltnshp(cat_df[i].in, cat_df[i].out,
                                          a.start_analysis, a.end_analysis)]]

\* lines 152-173
BuildIncs ==
    /\ pc = "loop"
    /\ cat_i <= Len(categories)
    /\ LET m == MakeIncs(stops_df, categories[cat_i], args)
       IN  /\ entry_bin' = m.entry_bin
           /\ exit_bin' = m.exit_bin
           /\ list_of_inc_arrays' = m.list_of_inc_arrays
           /\ rec_type' = m.rec_type
    /\ pc' = "clip"
    /\ UNCHANGED <<args, stops_df, num_bins, do_totals, categories, cat_i,
                   rec_counts, results, fn_in, fn_out>>

\* line 176
ClipIncs ==
    /\ pc = "clip"
    /\ LET st == update_occ_incs(entry_bin, exit_bin, list_of_inc_arrays,
                                 rec_type, num_bins)
       IN  /\ entry_bin' = st.in_bins
           /\ exit_bin' = st.out_bins
           /\ list_of_inc_arrays' = st.incs
           /\ rec_counts' = st.counts
    /\ pc' = "accumulate"
    /\ UNCHANGED <<args, stops_df, num_bins, do_totals, categories, cat_i,
                   rec_type, results, fn_in, fn_out>>

\* np.column_stack((arr, dep, occ)): the three columns have one length
ColumnStack(arr, dep, occ) ==
    IF Len(arr) = Len(occ) /\ Len(dep) = Len(occ)
    THEN [ok |-> TRUE, val |-> [arrivals |-> arr, departures |-> dep,
                                occupancy |-> occ]]
    ELSE [ok |-> FALSE, val |-> <<>>]

\* lines 179-187: the matrix of one category, or not ok when a call raises
OccArrDep(entry_bins, exit_bins, rec_types, incs, n) ==
    LET occ == update_occ(Zeros(n), entry_bins, rec_types, incs)
        arr == BinCount(entry_bins, n)
        dep == BinCount(exit_bins, n)
    IN  IF occ.ok /\ arr.ok /\ dep.ok
        THEN ColumnStack(arr.val, dep.val, occ.val)
        ELSE [ok |-> FALSE, val |-> <<>>]

\* lines 153-187: the matrix the loop body computes for category c of df
CatMatrix(df, c, a, n) ==
    LET m == MakeIncs(df, c, a)
        st == update_occ_incs(m.entry_bin, m.exit_bin, m.list_of_inc_arrays,
                              m.rec_type, n)
    IN  OccArrDep(st.in_bins, st.out_bins, m.rec_type, st.incs, n)

\* lines 179-190
Accumulate ==
    /\ pc = "accumulate"
    /\ LET oad == OccArrDep(entry_bin, exit_bin, rec_type, list_of_inc_arrays,
                            num_bins)
       IN  IF oad.ok
           THEN /\ results' = [c \in DOMAIN results \cup {categories[cat_i]} |->
                                  IF c = categories[cat_i] THEN oad.val
                                  ELSE results[c]]
                /\ cat_i' = cat_i + 1
                /\ pc' = "loop"
           ELSE /\ pc' = "raised"
                /\ UNCHANGED <<results, cat_i>>
    /\ UNCHANGED <<args, stops_df, num_bins, do_totals, categories, entry_bin,
                   exit_bin, list_of_inc_arrays, rec_type, rec_counts, fn_in,
                   fn_out>>

AddMatrix(m1, m2) ==
    [arrivals |-> [j \in 1..Len(m1.arrivals) |-> m1.arrivals[j] + m2.arrivals[j]],
     departures |-> [j \in 1..Len(m1.departures) |->
                        m1.departures[j] + m2.departures[j]],
     occupancy |-> [j \in 1..Len(m1.occupancy) |->
                       m1.occupancy[j] + m2.occupancy[j]]]

ZeroMatrix(n) ==
    [arrivals |-> Zeros(n), departures |-> Zeros(n), occupancy |-> Zeros(n)]

RECURSIVE SumResults(_, _, _)
\* the totals loop with = in the place of +=: the matrix of one key
SumResultsAssigned(res, ks, n) ==
    IF ks = {} THEN ZeroMatrix(n) ELSE res[CHOOSE x \in ks : TRUE]

\* lines 196-198: the sum of the matrices stored under the keys ks
SumResults(res, ks, n) ==
    IF ks = {} THEN ZeroMatrix(n)
    ELSE LET c == CHOOSE x \in ks : TRUE
         IN  AddMatrix(SumResults(res, ks \ {c}, n), res[c])

\* lines 192-202 without the test of do_totals
FinishAlwaysTotals ==
    /\ pc = "loop"
    /\ cat_i > Len(categories)
    /\ results' = [c \in DOMAIN results \cup {totals_key} |->
                       IF c = totals_key
                       THEN SumResults(results, DOMAIN results, num_bins)
                       ELSE results[c]]
    /\ pc' = "done"
    /\ UNCHANGED <<args, stops_df, num_bins, do_totals, categories, cat_i,
                   entry_bin, exit_bin, list_of_inc_arrays, rec_type,
                   rec_counts, fn_in, fn_out>>

\* lines 192-202
Finish ==
    /\ pc = "loop"
    /\ cat_i > Len(categories)
    /\ results' = IF do_totals
                  THEN [c \in DOMAIN results \cup {totals_key} |->
                           IF c = totals_key
                           THEN SumResults(results, DOMAIN results, num_bins)
                           ELSE results[c]]
                  ELSE results
    /\ pc' = "done"
    /\ UNCHANGED <<args, stops_df, num_bins, do_totals, categories, cat_i,
                   entry_bin, exit_bin, list_of_inc_arrays, rec_type,
                   rec_counts, fn_in, fn_out>>

Next == Setup \/ BuildIncs \/ ClipIncs \/ Accumulate \/ Finish

Spec == Init /\ [][Next]_vars

\* ------------------------------------------- the edge fractions on their own
FracArgs == [ts : FracTimes, bin_size_minutes : FracBinSizes, edge_bins : {1, 2},
             start_span : {0, StartAnalysis}]

NoArgs == [stops_df |-> <<>>, catfield |-> FALSE,
           start_analysis |-> StartAnalysis, end_analysis |-> EndAnalysis,
           bin_size_minutes |-> 60, cat_to_exclude |-> NoneArg,
           totals |-> 1, edge_bins |-> 1]

InitFrac ==
    /\ args = NoArgs
    /\ Idle
    /\ pc = "frac"
    /\ fn_in \in FracArgs
    /\ fn_out = <<>>

ApplyFrac ==
    /\ pc = "frac"
    /\ fn_out' = [in_frac |-> in_bin_occ_frac(fn_in.ts, fn_in.bin_size_minutes,
                                              fn_in.edge_bins),
                  out_frac |-> out_bin_occ_frac(fn_in.ts, fn_in.bin_size_minutes,
                                                fn_in.edge_bins)]
    /\ pc' = "frac_done"
    /\ UNCHANGED <<args, stops_df, num_bins, do_totals, categories, cat_i,
                   entry_bin, exit_bin, list_of_inc_arrays, rec_type,
                   rec_counts, results, fn_in>>

NextFrac == ApplyFrac

SpecFrac == InitFrac /\ [][NextFrac]_vars

\* ---------------------------------------------- make_occ_incs on its own
MaxIncBin == 3
IncBins == (-2)..MaxIncBin
IncFracs == {0, 900, One(60)}
IncsArgs == [in_bin : IncBins, out_bin : IncBins,
             in_frac : IncFracs, out_frac : IncFracs]

InitIncs ==
    /\ args = NoArgs
    /\ Idle
    /\ pc = "incs"
    /\ fn_in \in IncsArgs
    /\ fn_out = <<>>

ApplyIncs ==
    /\ pc = "incs"
    /\ fn_out' = make_occ_incs(fn_in.in_bin, fn_in.out_bin, fn_in.in_frac,
                               fn_in.out_frac, One(60))
    /\ pc' = "incs_done"
    /\ UNCHANGED <<args, stops_df, num_bins, do_totals, categories, cat_i,
                   entry_bin, exit_bin, list_of_inc_arrays, rec_type,
                   rec_counts, results, fn_in>>

NextIncs == ApplyIncs

SpecIncs == InitIncs /\ [][NextIncs]_vars

\* ------------------------------------------------- update_occ on its own
OccBins == 3
MaxIncLen == 3
OccIncs == UNION {[1..n -> {900, One(60)}] : n \in 0..MaxIncLen}
OccArgs == [occ : {Zeros(OccBins)}, entry_bin : (-2)..(OccBins + 1),
            rec_type : RecTypeKeys \ {"unknown"}, occ_inc : OccIncs]

InitOcc ==
    /\ args = NoArgs
    /\ Idle
    /\ pc = "occ"
    /\ fn_in \in OccArgs
    /\ fn_out = <<>>

ApplyOcc ==
    /\ pc = "occ"
    /\ fn_out' = update_occ(fn_in.occ, <<fn_in.entry_bin>>, <<fn_in.rec_type>>,
                            <<fn_in.occ_inc>>)
    /\ pc' = "occ_done"
    /\ UNCHANGED <<args, stops_df, num_bins, do_totals, categories, cat_i,
                   entry_bin, exit_bin, list_of_inc_arrays, rec_type,
                   rec_counts, results, fn_in>>

NextOcc == ApplyOcc

SpecOcc == InitOcc /\ [][NextOcc]_vars

\* ------------------------------------------------------------- properties
\* the category whose matrix was stored last, while its bins, increment
\* arrays and record types are still in place
JustStored == pc = "loop" /\ cat_i > 1
LastCat == categories[cat_i - 1]

\* C1: whatever the batch (records before the window, after it, backwards),
\* make_bydatetime does not raise, and the arrivals, departures and occupancy
\* arrays it stores for a category each have exactly num_bins elements.
C1_ArraysHaveNumBins ==
    /\ pc # "raised"
    /\ \A c \in DOMAIN results :
          /\ Len(results[c].arrivals) = num_bins
          /\ Len(results[c].departures) = num_bins
          /\ Len(results[c].occupancy) = num_bins

\* what record i adds to bin b when its increment array lies at its entry bin
OccContribution(i, b) ==
    IF /\ rec_type[i] \in {"inner", "left", "right", "outer"}
       /\ entry_bin[i] <= b
       /\ b < entry_bin[i] + Len(list_of_inc_arrays[i])
    THEN list_of_inc_arrays[i][b - entry_bin[i] + 1]
    ELSE 0

\* C2: once update_occ has processed the records of a category, every bin of
\* the occupancy array is the sum of what the inner, left, right and outer
\* records place there (backwards and none records add zero to every bin),
\* and the sum of the array is the sum of the elements of the clipped
\* increment arrays of those records.
C2_OccupancyMass ==
    JustStored =>
        LET occ == results[LastCat].occupancy
            n == Len(rec_type)
        IN  /\ \A b \in 0..(num_bins - 1) :
                  occ[b + 1] = SumSeq([i \in 1..n |-> OccContribution(i, b)])
            /\ SumSeq(occ) =
                  SumSeq([i \in 1..n |->
                             IF rec_type[i] \in {"inner", "left", "right", "outer"}
                             THEN SumSeq(list_of_inc_arrays[i]) ELSE 0])

\* a category with a backwards record and a clipped record that leaves mass
C2_Witness ==
    /\ JustStored
    /\ \E i, j \in 1..Len(rec_type) :
          /\ rec_type[i] = "backwards"
          /\ rec_type[j] \in {"left", "right", "outer"}
          /\ SumSeq(list_of_inc_arrays[j]) > 0
    /\ SumSeq(results[LastCat].occupancy) > 0

\* the number of counted records of the category whose bins span bin b
SpanCount(b) ==
    Cardinality({i \in 1..Len(rec_type) :
                    /\ rec_type[i] \in {"inner", "left", "right", "outer"}
                    /\ entry_bin[i] <= b /\ b <= exit_bin[i]})

\* C3: with edge_bins = 2 every element of every increment array is 1.0 and
\* an occupancy bin holds the number of counted records that span it.
C3_WholeBinFractions ==
    args.edge_bins = 2 =>
        /\ pc = "clip" =>
              \A i \in 1..Len(list_of_inc_arrays) :
                 \A j \in 1..Len(list_of_inc_arrays[i]) :
                    list_of_inc_arrays[i][j] = One(args.bin_size_minutes)
        /\ JustStored =>
              \A b \in 0..(num_bins - 1) :
                 results[LastCat].occupancy[b + 1] =
                     SpanCount(b) * One(args.bin_size_minutes)

\* C4: under the fractional policy both fractions lie in [0.0, 1.0], for
\* every bin size that divides the day.
C4_FractionsInUnitInterval ==
    (pc = "frac_done" /\ fn_in.edge_bins = 1) =>
        /\ 0 <= fn_out.in_frac /\ fn_out.in_frac <= One(fn_in.bin_size_minutes)
        /\ 0 <= fn_out.out_frac /\ fn_out.out_frac <= One(fn_in.bin_size_minutes)

\* seconds from the start of the bin bin_of_span puts ts in, to ts
SecondsIntoBin(ts, start_span, bin_size_minutes) ==
    ts - (start_span
          + bin_of_span(ts, start_span, bin_size_minutes) * bin_size_minutes * 60)

\* C5: under the fractional policy the entry fraction is the seconds elapsed
\* in the bin that holds the timestamp over the seconds of a bin, and the
\* exit fraction is the rest of the bin over the seconds of a bin.
C5_FractionsAreShareOfBin ==
    (pc = "frac_done" /\ fn_in.edge_bins = 1) =>
        LET elapsed == SecondsIntoBin(fn_in.ts, fn_in.start_span,
                                      fn_in.bin_size_minutes)
        IN  /\ fn_out.in_frac = elapsed
            /\ fn_out.out_frac = One(fn_in.bin_size_minutes) - elapsed


\* C6: the matrix stored for a category is the one the same call computes
\* from a batch that holds the records of that category and no others.
C6_CategoryIndependent ==
    JustStored =>
        results[LastCat] =
            CatMatrix(SelectCat(stops_df, LastCat), LastCat, args, num_bins).val

CategorySet == {categories[k] : k \in 1..Len(categories)}

\* the matrix of an analysed category: the one in the mapping, or the one
\* the loop computed when the totals have taken its key
CatTriple(c) ==
    IF c = totals_key THEN CatMatrix(stops_df, c, args, num_bins).val
    ELSE results[c]

\* C7: with a category field, each bin of the arrivals, departures and
\* occupancy of the totals entry is the sum of that bin over the matrices of
\* all analysed categories.
C7_TotalsAreSums ==
    (pc = "done" /\ do_totals) =>
        \A b \in 1..num_bins :
            /\ results[totals_key].arrivals[b] =
                  SumSeq([k \in 1..Len(categories) |->
                             CatTriple(categories[k]).arrivals[b]])
            /\ results[totals_key].departures[b] =
                  SumSeq([k \in 1..Len(categories) |->
                             CatTriple(categories[k]).departures[b]])
            /\ results[totals_key].occupancy[b] =
                  SumSeq([k \in 1..Len(categories) |->
                             CatTriple(categories[k]).occupancy[b]])

\* two categories that both arrive in one bin and both occupy it
C7_Witness ==
    /\ pc = "done"
    /\ do_totals
    /\ Len(categories) = 2
    /\ \E b \in 1..num_bins : \A k \in 1..2 :
          /\ CatTriple(categories[k]).arrivals[b] > 0
          /\ CatTriple(categories[k]).occupancy[b] > 0

\* C8: the mapping returned with a category field has one entry per analysed
\* category, holding the matrix of that category, and one more entry, the
\* totals, whatever the category values are.
C8_TotalsKeyIsDistinct ==
    (pc = "done" /\ do_totals) =>
        /\ Cardinality(DOMAIN results) = Len(categories) + 1
        /\ \A c \in CategorySet :
              /\ c \in DOMAIN results
              /\ results[c] = CatMatrix(stops_df, c, args, num_bins).val

ExcludedValues ==
    {args.cat_to_exclude.val[k] : k \in 1..Len(args.cat_to_exclude.val)}

\* the keys of the mapping that stand for a category
CategoryKeys == IF do_totals THEN DOMAIN results \ {totals_key} ELSE DOMAIN results

\* the batch without the records of the categories to exclude
NotExcluded(df) == SelectSeq(df, LAMBDA r : r.cat \notin ExcludedValues)

\* C9: with a list of category values to exclude, the mapping has no entry
\* for a listed value, has an entry for every other value of the batch, and
\* is the mapping of the batch without the records of the listed values.
\* (The key of the totals is left aside: C8 is about it.)
C9_ExcludedCategoriesLeftOut ==
    (pc = "done" /\ args.catfield /\ args.cat_to_exclude.given) =>
        /\ \A c \in ExcludedValues : c \notin CategoryKeys
        /\ \A i \in 1..Len(args.stops_df) :
              LET c == args.stops_df[i].cat
              IN  (c \notin ExcludedValues /\ c # totals_key) => c \in CategoryKeys
        /\ \A c \in CategoryKeys :
              results[c] =
                  CatMatrix(NotExcluded(args.stops_df), c, args, num_bins).val

\* C10: with totals = 0 the mapping has the entries of the categories and no
\* other; with totals = 1 and a category field it has the totals entry.
C10_TotalsFlag ==
    pc = "done" =>
        /\ args.totals = 0 => DOMAIN results \subseteq CategorySet
        /\ (args.totals = 1 /\ args.catfield) =>
              /\ totals_key \in DOMAIN results
              /\ DOMAIN results \subseteq CategorySet \cup {totals_key}


InRange(bins, n) == {i \in 1..Len(bins) : 0 <= bins[i] /\ bins[i] <= n - 1}

\* what the claim says of one of the two count arrays of lines 183-184
CountsRecordsInRange(counted, bins, n) ==
    /\ counted.ok
    /\ Len(counted.val) = n
    /\ SumSeq(counted.val) = Cardinality(InRange(bins, n))
    /\ \A b \in 0..(n - 1) :
          counted.val[b + 1] = Cardinality({i \in 1..Len(bins) : bins[i] = b})

\* C12: the arrivals array counts one at the clipped entry bin of every
\* record whose clipped entry bin lies in [0, num_bins - 1], the departures
\* array likewise for the exit bins, and no other record changes them.
C12_ArrivalsAndDeparturesCount ==
    pc = "accumulate" =>
        /\ CountsRecordsInRange(BinCount(entry_bin, num_bins), entry_bin, num_bins)
        /\ CountsRecordsInRange(BinCount(exit_bin, num_bins), exit_bin, num_bins)


\* the bins and increment arrays of the category at hand as lines 157-168
\* made them, before update_occ_incs
Raw == MakeIncs(stops_df, categories[cat_i], args)

\* s without its first k elements, and without its last k elements
DropFirst(s, k) == SubSeq(s, k + 1, Len(s))
DropLast(s, k) == SubSeq(s, 1, Len(s) - k)

\* C14: update_occ_incs leaves of the increment array of a left record all
\* but the first -entry_bin elements and sets its entry bin to 0; of a right
\* record all but the last exit_bin - (num_bins - 1) elements, with exit bin
\* num_bins - 1; of an outer record both, so that num_bins elements stay.
C14_ClippingKeepsLengths ==
    pc = "accumulate" =>
        \A i \in 1..Len(rec_type) :
            LET e == Raw.entry_bin[i]
                x == Raw.exit_bin[i]
                old == Raw.list_of_inc_arrays[i]
            IN  /\ rec_type[i] = "left" =>
                      /\ list_of_inc_arrays[i] = DropFirst(old, -e)
                      /\ entry_bin[i] = 0
                /\ rec_type[i] = "right" =>
                      /\ list_of_inc_arrays[i] = DropLast(old, x - (num_bins - 1))
                      /\ exit_bin[i] = num_bins - 1
                /\ rec_type[i] = "outer" =>
                      /\ list_of_inc_arrays[i] =
                            DropLast(DropFirst(old, -e), x - (num_bins - 1))
                      /\ Len(list_of_inc_arrays[i]) = num_bins
                      /\ entry_bin[i] = 0
                      /\ exit_bin[i] = num_bins - 1

\* C17: after update_occ_incs an inner, left, right or outer record has a
\* non-empty increment array of exit_bin - entry_bin + 1 elements and bins
\* with 0 <= entry_bin <= exit_bin <= num_bins - 1; an inner, backwards or
\* none record has the bins and the increment array it had.
C17_ClippedRecordsFitTheWindow ==
    pc = "accumulate" =>
        \A i \in 1..Len(rec_type) :
            /\ rec_type[i] \in {"inner", "left", "right", "outer"} =>
                  /\ list_of_inc_arrays[i] # <<>>
                  /\ 0 <= entry_bin[i]
                  /\ entry_bin[i] <= exit_bin[i]
                  /\ exit_bin[i] <= num_bins - 1
                  /\ Len(list_of_inc_arrays[i]) = exit_bin[i] - entry_bin[i] + 1
            /\ rec_type[i] \in {"inner", "backwards", "none"} =>
                  /\ entry_bin[i] = Raw.entry_bin[i]
                  /\ exit_bin[i] = Raw.exit_bin[i]
                  /\ list_of_inc_arrays[i] = Raw.list_of_inc_arrays[i]


\* every record of the category at hand is counted once, under its label
CountedUnderItsLabel ==
    /\ rec_counts["unknown"] = 0
    /\ \A t \in RecTypeKeys :
          rec_counts[t] = Cardinality({i \in 1..Len(rec_type) : rec_type[i] = t})

\* C15: exactly one of the six conditions of the classification table holds
\* of the raw bins of every record, and update_occ_incs counts every record
\* under exactly one label and never under 'unknown'.
C15_ClassesExclusiveAndExhaustive ==
    pc = "accumulate" =>
        /\ \A i \in 1..Len(rec_type) :
              Cardinality(TableClasses(Raw.entry_bin[i], Raw.exit_bin[i],
                                       num_bins)) = 1
        /\ CountedUnderItsLabel

\* C15 as amended: exactly one of the five conditions inner, left, right,
\* outer, none holds of the raw bins of every record, and backwards holds in
\* addition exactly when exit_bin < entry_bin; update_occ_incs counts every
\* record under exactly one label and never under 'unknown'.
C15_ClassesExhaustive ==
    pc = "accumulate" =>
        /\ \A i \in 1..Len(rec_type) :
              LET tc == TableClasses(Raw.entry_bin[i], Raw.exit_bin[i], num_bins)
              IN  /\ Cardinality(tc \ {"backwards"}) = 1
                  /\ "backwards" \in tc <=> Raw.exit_bin[i] < Raw.entry_bin[i]
        /\ CountedUnderItsLabel

\* a record that leaves before it enters, of which two conditions hold, next
\* to a record outside the window; both counted
C15_Witness ==
    /\ pc = "accumulate"
    /\ Len(rec_type) = 2
    /\ rec_type[1] = "backwards"
    /\ Raw.exit_bin[1] < Raw.entry_bin[1]
    /\ Cardinality(TableClasses(Raw.entry_bin[1], Raw.exit_bin[1], num_bins)) = 2
    /\ rec_type[2] = "none"
    /\ rec_counts["backwards"] = 1
    /\ rec_counts["none"] = 1

\* C13: when update_occ is given an inner, left, right or outer record whose
\* increment array, laid at its entry bin, covers an index outside
\* [0, num_bins - 1], it ends in an error.
C13_OutOfBoundsRaises ==
    pc = "occ_done" =>
        ((/\ fn_in.rec_type \in {"inner", "left", "right", "outer"}
          /\ Len(fn_in.occ_inc) >= 1
          /\ \/ fn_in.entry_bin < 0
             \/ fn_in.entry_bin + Len(fn_in.occ_inc) > Len(fn_in.occ))
         => ~fn_out.ok)

\* what the claim says of the array make_occ_incs returns for n_bins bins
IncsAsBuilt(s, n_bins, in_frac, out_frac, one) ==
    /\ Len(s) = n_bins
    /\ s[1] = in_frac
    /\ n_bins >= 2 => s[n_bins] = out_frac
    /\ \A k \in 2..(n_bins - 1) : s[k] = one
    /\ n_bins = 1 => s = <<in_frac>>

\* C16: make_occ_incs returns an array of exit_bin - entry_bin + 1 elements,
\* the first the entry fraction, the last the exit fraction when there are at
\* least two, those between exactly 1.0; a single element is the entry
\* fraction.
C16_IncsLength ==
    pc = "incs_done" =>
        IncsAsBuilt(fn_out, fn_in.out_bin - fn_in.in_bin + 1,
                    fn_in.in_frac, fn_in.out_frac, One(60))

\* C16 as amended: the same for exit_bin >= entry_bin; for exit_bin <
\* entry_bin make_occ_incs returns the one-element array [entry_fraction].
C16_IncsLengthForwards ==
    pc = "incs_done" =>
        IF fn_in.out_bin >= fn_in.in_bin
        THEN IncsAsBuilt(fn_out, fn_in.out_bin - fn_in.in_bin + 1,
                         fn_in.in_frac, fn_in.out_frac, One(60))
        ELSE fn_out = <<fn_in.in_frac>>

\* four bins from bin -1 to bin 2: two ones between the fractions
C16_Witness ==
    /\ pc = "incs_done"
    /\ fn_in.in_bin = -1
    /\ fn_in.out_bin = 2
    /\ fn_in.in_frac = 900
    /\ fn_in.out_frac = 0
    /\ fn_out = <<900, One(60), One(60), 0>>

====
